---- MODULE Spec2Model ----
(***************************************************************************)
(* simple-task-manager server: the authenticated request pipeline          *)
(* (api.prepareAndHandle) and the OAuth handshake (auth.OauthLogin /       *)
(* auth.OauthCallback).                                                     *)
(*                                                                         *)
(* Three specifications share this module:                                 *)
(*   Spec       one request at a time through prepareAndHandle             *)
(*   SpecOauth  concurrent OauthLogin / OauthCallback goroutines over the  *)
(*              process-wide maps configs and loggers                      *)
(*   SpecStream one request at a time through authenticatedWebsocket       *)
(***************************************************************************)
EXTENDS Integers, Sequences, FiniteSets, TLC

(***************************************************************************)
(* Bounds of the model.                                                    *)
(***************************************************************************)
\* time.Now() and validUntil range over 0..MaxTime
MaxTime == 2
\* number of OauthLogin goroutines
NumLogins == 2
\* number of OauthCallback goroutines
NumCallbacks == 2

(***************************************************************************)
(* Program constants.                                                      *)
(***************************************************************************)
StatusOK == 200
StatusBadRequest == 400
StatusUnauthorized == 401
StatusInternalServerError == 500
StatusTemporaryRedirect == 307
\* config.Conf.TokenValidityDuration, in ticks of the model's clock
tokenValidityDuration == 1

(***************************************************************************)
(* Values.                                                                 *)
(***************************************************************************)
Users == {"alice", "bob"}
UidOf(u) == IF u = "alice" THEN "1" ELSE "2"

\* rows a handler may write through its transaction
Rows == {"r1", "r2"}

\* interface{} values carried by ApiResponse.data
NilData == [kind |-> "nil", v |-> ""]
ErrData(msg) == [kind |-> "error", v |-> msg]
ValData(p) == [kind |-> "value", v |-> p]
\* a value encoding/json rejects (a channel, a func, NaN)
ChanData == [kind |-> "unencodable", v |-> "chan"]

ErrorMessages == {"bad parameter", "database failure"}
Payloads == {"project"}

(***************************************************************************)
(* Token codec (auth/token.go is not among the sources; modelled from the  *)
(* specification, section 3 and 4.1).                                      *)
(***************************************************************************)
\* the signature over a token's content under the server's key
Sign(user, uid, validUntil) == <<user, uid, validUntil>>

NoSecret == <<>>

NoToken == [user |-> "", uid |-> "", validUntil |-> 0, secret |-> NoSecret]

\* createTokenString: the encoded, signed token
Issue(user, uid, validUntil) ==
    [fmt |-> "token", user |-> user, uid |-> uid, validUntil |-> validUntil,
     secret |-> Sign(user, uid, validUntil)]

\* a header value that does not decode to a token
GarbageValue == [fmt |-> "garbage", user |-> "", uid |-> "", validUntil |-> 0,
                 secret |-> NoSecret]
\* the empty string (Header.Get of an absent header; an empty parameter)
EmptyValue == [fmt |-> "empty", user |-> "", uid |-> "", validUntil |-> 0,
               secret |-> NoSecret]

\* every well-formed encoded token a client may send: genuine ones and ones
\* whose content or signature was tampered with
EncodedTokens ==
    { [fmt |-> "token", user |-> u, uid |-> UidOf(u), validUntil |-> t,
       secret |-> Sign(su, UidOf(su), st)] :
        u \in Users, t \in 0..MaxTime, su \in Users, st \in 0..MaxTime }

TokenStrings == EncodedTokens \cup {GarbageValue, EmptyValue}

\* verifyToken(logger, encodedToken): decode, compare the signature, check
\* the expiry.  err = "" is Go's nil error.
verifyToken(enc, now) ==
    IF enc.fmt # "token"
    THEN [err |-> "malformed", token |-> NoToken]
    ELSE IF enc.secret # Sign(enc.user, enc.uid, enc.validUntil)
    THEN [err |-> "signature", token |-> NoToken]
    ELSE IF now > enc.validUntil
    THEN [err |-> "expired", token |-> NoToken]
    ELSE [err |-> "",
          token |-> [user |-> enc.user, uid |-> enc.uid,
                     validUntil |-> enc.validUntil, secret |-> enc.secret]]

(***************************************************************************)
(* auth.VerifyRequest                                                      *)
(***************************************************************************)
\* http.Header.Get: the first value of the header, "" when there is none
HeaderGet(h) == IF Len(h) = 0 THEN EmptyValue ELSE h[1]

\* a VerifyRequest that hands the verified token on as verifyToken built it
VerifyRequestKeepsSecret(h, now) ==
    LET r == verifyToken(HeaderGet(h), now)
    IN  IF r.err # ""
        THEN [err |-> r.err, token |-> NoToken]
        ELSE [err |-> "", token |-> r.token]

VerifyRequest(h, now) ==
    LET r == verifyToken(HeaderGet(h), now)
    IN  IF r.err # ""
        THEN [err |-> r.err, token |-> NoToken]
        ELSE [err |-> "", token |-> [r.token EXCEPT !.secret = NoSecret]]

(***************************************************************************)
(* api.ApiResponse and its constructors                                    *)
(***************************************************************************)
BadRequestError(err) ==
    [ptr |-> "ok", statusCode |-> StatusBadRequest, data |-> err]
InternalServerError(err) ==
    [ptr |-> "ok", statusCode |-> StatusInternalServerError, data |-> err]
JsonResponse(data) ==
    [ptr |-> "ok", statusCode |-> StatusOK, data |-> data]
EmptyResponse ==
    [ptr |-> "ok", statusCode |-> StatusOK, data |-> NilData]
\* a nil *ApiResponse
NilResponse == [ptr |-> "nil", statusCode |-> 0, data |-> NilData]

\* what a handler can hand back to the pipeline
HandlerResponses ==
    { BadRequestError(d) : d \in {ErrData(m) : m \in ErrorMessages} \cup {NilData} }
    \cup { InternalServerError(ErrData(m)) : m \in ErrorMessages }
    \cup { JsonResponse(d) : d \in {ValData(p) : p \in Payloads} \cup {ChanData} }
    \cup { EmptyResponse, NilResponse }

\* values a handler can panic with: an error, or something else
NoPanic == [kind |-> "none", v |-> ""]
HandlerPanics == { [kind |-> "error", v |-> "index out of range"],
                   [kind |-> "string", v |-> "unexpected state"] }

(***************************************************************************)
(* The http.ResponseWriter and the transaction, as a log of the calls the  *)
(* pipeline makes on them.                                                 *)
(***************************************************************************)
Ev(op, code, text) == [op |-> op, code |-> code, text |-> text]

\* util.ErrorResponse: WriteHeader(status), then Write(err.Error())
ErrorResponse(msg, status) ==
    << Ev("WriteHeader", status, ""), Ev("Write", 0, msg) >>
ResponseBadRequest(msg) == ErrorResponse(msg, StatusBadRequest)
ResponseInternalError(msg) == ErrorResponse(msg, StatusInternalServerError)
ResponseUnauthorized(msg) == ErrorResponse(msg, StatusUnauthorized)

\* json.Encoder.Encode: the encoding followed by a newline, or an error
\* and nothing written
Encode(data) ==
    IF data.kind = "unencodable"
    THEN [err |-> "json: unsupported type", bytes |-> ""]
    ELSE IF data.kind = "nil"
    THEN [err |-> "", bytes |-> "null\n"]
    ELSE [err |-> "", bytes |-> "\"" \o data.v \o "\"\n"]

RECURSIVE CountOp(_, _)
CountOp(s, op) ==
    IF s = <<>> THEN 0
    ELSE (IF Head(s).op = op THEN 1 ELSE 0) + CountOp(Tail(s), op)

RECURSIVE CountEv(_, _)
CountEv(s, e) ==
    IF s = <<>> THEN 0
    ELSE (IF Head(s) = e THEN 1 ELSE 0) + CountEv(Tail(s), e)

IsResponseOp(e) == e.op \in {"WriteHeader", "Write"}

\* net/http: the status line is that of the first WriteHeader, or 200 when
\* the first call is a Write or the handler returns without either
ResponseStatus(s) ==
    LET w == SelectSeq(s, IsResponseOp)
    IN  IF w # <<>> /\ Head(w).op = "WriteHeader" THEN Head(w).code ELSE StatusOK

RECURSIVE Concat(_)
Concat(s) == IF s = <<>> THEN "" ELSE Head(s).text \o Concat(Tail(s))

\* the response body: everything written, in order
ResponseBody(s) == Concat(SelectSeq(s, LAMBDA e : e.op = "Write"))

(***************************************************************************)
(* State.                                                                  *)
(***************************************************************************)
VARIABLES
    \* ---- prepareAndHandle, the request in flight ----
    pc,         \* position in prepareAndHandle
    header,     \* r.Header["Authorization"]: a sequence of values
    now,        \* time.Now() of the request
    token,      \* the token VerifyRequest returned
    tx,         \* context.Transaction
    txWrites,   \* rows written through the transaction
    db,         \* committed rows, visible to every other transaction
    dbStart,    \* db when the request came in
    response,   \* the *ApiResponse the handler returned
    recovered,  \* the value recover() yields in the deferred function
    log         \* calls on w and on the transaction, in order

pipelineVars ==
    <<pc, header, now, token, tx, txWrites, db, dbStart, response, recovered, log>>

VARIABLES
    \* ---- package auth: process-wide state and the goroutines using it ----
    configs,     \* map[string]*oauth1a.UserConfig
    loggers,     \* map[string]*util.Logger
    callbackURL, \* service.ClientConfig.CallbackURL
    rts,         \* the provider's request tokens
    lg,          \* the OauthLogin goroutines
    cb           \* the OauthCallback goroutines

oauthVars == <<configs, loggers, callbackURL, rts, lg, cb>>

VARIABLES
    \* ---- authenticatedWebsocket, the request in flight ----
    ws

streamVars == <<ws>>

vars == <<pipelineVars, oauthVars, streamVars>>

InitPipeline ==
    /\ pc = "idle"
    /\ header = <<>>
    /\ now = 0
    /\ token = NoToken
    /\ tx = "none"
    /\ txWrites = {}
    /\ db = {}
    /\ dbStart = {}
    /\ response = NilResponse
    /\ recovered = NoPanic
    /\ log = <<>>

\* a request arrives: net/http calls the function authenticatedTransactionHandler
\* returned, which calls prepareAndHandle
NewRequest ==
    /\ pc \in {"idle", "done"}
    /\ \E h \in {<<>>} \cup {<<v>> : v \in TokenStrings}, t \in 0..MaxTime :
        /\ header' = h
        /\ now' = t
    /\ token' = NoToken
    /\ tx' = "none"
    /\ txWrites' = {}
    /\ dbStart' = db
    /\ response' = NilResponse
    /\ recovered' = NoPanic
    /\ log' = <<>>
    /\ pc' = "verify"
    /\ UNCHANGED <<db, oauthVars, streamVars>>

\* the variables of a request that a step leaves alone unless it names them
Request == <<header, now, dbStart>>

(***************************************************************************)
(* prepareAndHandle, step by step.                                         *)
(***************************************************************************)
\* token verification whose failure branch lacks its return
VerifyNoReturn ==
    /\ pc = "verify"
    /\ LET r == VerifyRequest(header, now)
       IN  IF r.err # ""
           THEN /\ log' = log \o ResponseUnauthorized("No valid authentication token found")
                /\ pc' = "createContext"
                /\ UNCHANGED token
           ELSE /\ token' = r.token
                /\ pc' = "createContext"
                /\ UNCHANGED log
    /\ UNCHANGED <<Request, tx, txWrites, db, response, recovered, oauthVars, streamVars>>

\* token verification that answers with the verification error itself
VerifyTellsReason ==
    /\ pc = "verify"
    /\ LET r == VerifyRequest(header, now)
       IN  IF r.err # ""
           THEN /\ log' = log \o ResponseUnauthorized(r.err)
                /\ pc' = "done"
                /\ UNCHANGED token
           ELSE /\ token' = r.token
                /\ pc' = "createContext"
                /\ UNCHANGED log
    /\ UNCHANGED <<Request, tx, txWrites, db, response, recovered, oauthVars, streamVars>>

\* token, err := auth.VerifyRequest(r, logger); if err != nil { 401; return }
Verify ==
    /\ pc = "verify"
    /\ LET r == VerifyRequest(header, now)
       IN  IF r.err # ""
           THEN /\ log' = log \o ResponseUnauthorized("No valid authentication token found")
                /\ pc' = "done"
                /\ UNCHANGED token
           ELSE /\ token' = r.token
                /\ pc' = "createContext"
                /\ UNCHANGED log
    /\ UNCHANGED <<Request, tx, txWrites, db, response, recovered, oauthVars, streamVars>>

\* createContext (api/context.go is not among the sources): it opens the
\* request's transaction, or fails without one
createContext == {"ok", "error"}

\* context, err := createContext(...); if err != nil { 500; return }
CreateContext ==
    /\ pc = "createContext"
    /\ \E r \in createContext :
        IF r = "error"
        THEN /\ log' = log \o ResponseInternalError("Unable to create context")
             /\ pc' = "done"
             /\ UNCHANGED tx
        ELSE /\ tx' = "open"
             /\ log' = Append(log, Ev("Begin", 0, ""))
             /\ pc' = "handler"
    /\ UNCHANGED <<Request, token, txWrites, db, response, recovered, oauthVars, streamVars>>

\* response = handler(r, context): the handler works through the
\* transaction, then returns a response or panics
CallHandler ==
    /\ pc = "handler"
    /\ \E writes \in SUBSET Rows :
        txWrites' = (IF tx = "open" THEN writes ELSE {})
    /\ \/ \E resp \in HandlerResponses :
            /\ response' = resp
            /\ log' = Append(log, Ev("Handler", 0, "return"))
            /\ pc' = "check"
            /\ UNCHANGED recovered
       \/ \E p \in HandlerPanics :
            /\ recovered' = p
            /\ log' = Append(log, Ev("Handler", 0, "panic"))
            /\ pc' = "recover"
            /\ UNCHANGED response
    /\ UNCHANGED <<Request, token, tx, db, oauthVars, streamVars>>

\* the status check with the declared failure let through to the commit
CheckStatusNoPanic ==
    /\ pc = "check"
    /\ IF response.ptr = "nil"
       THEN /\ recovered' = [kind |-> "error", v |-> "nil pointer dereference"]
            /\ pc' = "recover"
       ELSE /\ pc' = "commit"
            /\ UNCHANGED recovered
    /\ UNCHANGED <<Request, token, tx, txWrites, db, response, log, oauthVars, streamVars>>

\* if response.statusCode != http.StatusOK { panic(response.data.(error)) }
CheckStatus ==
    /\ pc = "check"
    /\ IF response.ptr = "nil"
       THEN \* response.statusCode on a nil pointer
            /\ recovered' = [kind |-> "error", v |-> "nil pointer dereference"]
            /\ pc' = "recover"
       ELSE IF response.statusCode # StatusOK
       THEN /\ recovered' =
                (IF response.data.kind = "error"
                 THEN [kind |-> "error", v |-> response.data.v]
                 ELSE \* the type assertion .(error) fails
                      [kind |-> "error", v |-> "interface conversion"])
            /\ pc' = "recover"
       ELSE /\ pc' = "commit"
            /\ UNCHANGED recovered
    /\ UNCHANGED <<Request, token, tx, txWrites, db, response, log, oauthVars, streamVars>>

\* Commit() returns nil or an error
CommitResults == {"ok", "error"}

\* the commit whose error is logged and not raised
CommitNoPanic ==
    /\ pc = "commit"
    /\ \E r \in CommitResults :
        /\ log' = Append(log, Ev("Commit", 0, r))
        /\ IF r = "ok"
           THEN /\ tx' = "committed"
                /\ db' = db \cup txWrites
           ELSE /\ tx' = "commitFailed"
                /\ UNCHANGED db
        /\ pc' = "encode"
        /\ UNCHANGED recovered
    /\ UNCHANGED <<Request, token, txWrites, response, oauthVars, streamVars>>

\* the commit that answers 500 itself before raising its error
CommitRespondAndPanic ==
    /\ pc = "commit"
    /\ \E r \in CommitResults :
        IF r = "ok"
        THEN /\ log' = Append(log, Ev("Commit", 0, r))
             /\ tx' = "committed"
             /\ db' = db \cup txWrites
             /\ pc' = "encode"
             /\ UNCHANGED recovered
        ELSE /\ log' = Append(log, Ev("Commit", 0, r))
                           \o ResponseInternalError("commit failed")
             /\ tx' = "commitFailed"
             /\ recovered' = [kind |-> "error", v |-> "commit failed"]
             /\ pc' = "recover"
             /\ UNCHANGED db
    /\ UNCHANGED <<Request, token, txWrites, response, oauthVars, streamVars>>

\* err = context.Transaction.Commit(); if err != nil { panic(err) }
Commit ==
    /\ pc = "commit"
    /\ \E r \in CommitResults :
        /\ log' = Append(log, Ev("Commit", 0, r))
        /\ IF r = "ok"
           THEN /\ tx' = "committed"
                /\ db' = db \cup txWrites
                /\ pc' = "encode"
                /\ UNCHANGED recovered
           ELSE /\ tx' = "commitFailed"
                /\ recovered' = [kind |-> "error", v |-> "commit failed"]
                /\ pc' = "recover"
                /\ UNCHANGED db
    /\ UNCHANGED <<Request, token, txWrites, response, oauthVars, streamVars>>

\* the body written whether or not there is a payload
WriteBodyAlways ==
    /\ pc = "encode"
    /\ log' = (IF Encode(response.data).err = ""
               THEN Append(log, Ev("Write", 0, Encode(response.data).bytes))
               ELSE log)
    /\ pc' = "done"
    /\ UNCHANGED <<Request, token, tx, txWrites, db, response, recovered, oauthVars, streamVars>>

\* if response.data != nil { json.NewEncoder(w).Encode(response.data) }
\* (Encode's error is dropped)
WriteBody ==
    /\ pc = "encode"
    /\ log' = (IF response.data.kind # "nil" /\ Encode(response.data).err = ""
               THEN Append(log, Ev("Write", 0, Encode(response.data).bytes))
               ELSE log)
    /\ pc' = "done"
    /\ UNCHANGED <<Request, token, tx, txWrites, db, response, recovered, oauthVars, streamVars>>

\* the deferred function: recover(), the value turned into an error (an
\* error as it is, anything else through fmt.Errorf("%v")), then
\* util.ResponseInternalError(w, err)
RecoverRespond ==
    /\ pc = "recover"
    /\ log' = log \o ResponseInternalError(recovered.v)
    /\ pc' = "rollback"
    /\ UNCHANGED <<Request, token, tx, txWrites, db, response, recovered, oauthVars, streamVars>>

\* Rollback() returns nil or an error
RollbackResults == {"ok", "error"}

\* the deferred function without its rollback
RecoverNoRollback ==
    /\ pc = "rollback"
    /\ pc' = "done"
    /\ UNCHANGED <<Request, token, tx, txWrites, db, response, recovered, log, oauthVars, streamVars>>

\* the deferred function, continued:
\* rollbackErr := context.Transaction.Rollback(), its error only logged
RecoverRollback ==
    /\ pc = "rollback"
    /\ \E r \in RollbackResults :
        /\ log' = Append(log, Ev("Rollback", 0, r))
        /\ tx' = (IF tx = "open"
                  THEN (IF r = "ok" THEN "rolledBack" ELSE "rollbackFailed")
                  ELSE tx)
    /\ pc' = "done"
    /\ UNCHANGED <<Request, token, txWrites, db, response, recovered, oauthVars, streamVars>>

(***************************************************************************)
(* package auth: the OAuth handshake.                                      *)
(*                                                                         *)
(* Login i draws the config key i (the hash of 64 random bytes, taken to   *)
(* be collision free) and the provider hands it the request token i; the   *)
(* verifier the provider issues for request token r is r.                  *)
(***************************************************************************)
Logins == 1..NumLogins
Callbacks == 1..NumCallbacks

\* the "redirect" form value: absent, or the client's landing page
RedirectParams == {"", "https://client/land"}
\* the "config" form value: absent (0), or a config key
ConfigParams == 0..NumLogins
\* the "oauth_verifier" form value: none or a wrong one (0), or a verifier
VerifierParams == 0..NumLogins

NilConfig == [nil |-> TRUE, rt |-> 0]
\* a *oauth1a.UserConfig holding the request token rt
UserConfig(rt) == [nil |-> FALSE, rt |-> rt]
NilLogger == [nil |-> TRUE, id |-> 0]
Logger(id) == [nil |-> FALSE, id |-> id]

EmptyMap == [k \in {} |-> NilConfig]

\* m[k] = v on a Go map
MapPut(m, k, v) == [x \in DOMAIN m \cup {k} |-> IF x = k THEN v ELSE m[x]]

\* the lookup that takes a blanked entry for a pending one
PendingKeyOnly(m, k) == k \in DOMAIN m

\* v, ok := m[k]; !(!ok || v == nil)
Pending(m, k) == k \in DOMAIN m /\ ~m[k].nil

\* oauthRedirectUrl + "?redirect=" + clientRedirectUrl + "&config=" + configKey
CallbackURL(redirect, key) == [redirect |-> redirect, config |-> key]

NoRequestToken == [issued |-> FALSE, callback |-> CallbackURL("", 0), authBy |-> ""]

IdleLogin ==
    [pc |-> "idle", redirect |-> "", providerErr |-> "", status |-> 0,
     after |-> {}]

IdleCallback ==
    [pc |-> "idle", key |-> 0, redirect |-> "", verifier |-> 0,
     logger |-> NilLogger, userConfig |-> NilConfig, accessUser |-> "",
     status |-> 0, token |-> EmptyValue, exchanges |-> 0,
     late |-> FALSE, after |-> {}]

InitOauth ==
    /\ configs = EmptyMap
    /\ loggers = EmptyMap
    /\ callbackURL = CallbackURL("", 0)
    /\ rts = [r \in Logins |-> NoRequestToken]
    /\ lg = [i \in Logins |-> IdleLogin]
    /\ cb = [j \in Callbacks |-> IdleCallback]

\* a goroutine has returned from its handler
LoginDone(i) == lg[i].pc = "done"
CallbackDone(j) == cb[j].pc = "done"
\* callback j found the pending state of its key and has blanked it
\* (it is past line 135)
Consumed(j) == ~cb[j].logger.nil /\ cb[j].pc # "clearLogger"

(***************************************************************************)
(* OauthLogin                                                              *)
(***************************************************************************)
\* getRandomBytes, the config key, the "redirect" parameter
LoginStart(i) ==
    /\ lg[i].pc = "idle"
    /\ \E random \in {"ok", "error"}, redirect \in RedirectParams :
        lg' = [lg EXCEPT ![i] =
                IF random = "error"
                THEN [@ EXCEPT !.pc = "done", !.status = StatusInternalServerError,
                               !.after = {k \in Logins : LoginDone(k)}]
                ELSE IF redirect = ""
                THEN [@ EXCEPT !.pc = "done", !.status = StatusBadRequest,
                               !.after = {k \in Logins : LoginDone(k)}]
                ELSE [@ EXCEPT !.pc = "setCallback", !.redirect = redirect,
                               !.after = {k \in Logins : LoginDone(k)}]]
    /\ UNCHANGED <<configs, loggers, callbackURL, rts, cb, pipelineVars, streamVars>>

\* service.ClientConfig.CallbackURL = ...
LoginSetCallback(i) ==
    /\ lg[i].pc = "setCallback"
    /\ callbackURL' = CallbackURL(lg[i].redirect, i)
    /\ lg' = [lg EXCEPT ![i].pc = "requestToken"]
    /\ UNCHANGED <<configs, loggers, rts, cb, pipelineVars, streamVars>>

\* userConfig.GetRequestToken(service, httpClient), which registers the
\* service's current callback URL with the provider, then
\* userConfig.GetAuthorizeURL(service); on an error of either the handler
\* returns without writing a response
LoginRequestToken(i) ==
    /\ lg[i].pc = "requestToken"
    /\ \E r \in {"ok", "requestTokenError", "authorizeURLError"} :
        /\ rts' = IF r = "requestTokenError" THEN rts
                  ELSE [rts EXCEPT ![i] = [issued |-> TRUE,
                                           callback |-> callbackURL,
                                           authBy |-> ""]]
        /\ lg' = [lg EXCEPT ![i] =
                    IF r = "ok"
                    THEN [@ EXCEPT !.pc = "storeConfig"]
                    ELSE [@ EXCEPT !.pc = "done", !.providerErr = r,
                                   !.status = StatusOK]]
    /\ UNCHANGED <<configs, loggers, callbackURL, cb, pipelineVars, streamVars>>

\* configs[configKey] = userConfig
LoginStoreConfig(i) ==
    /\ lg[i].pc = "storeConfig"
    /\ configs' = MapPut(configs, i, UserConfig(i))
    /\ lg' = [lg EXCEPT ![i].pc = "storeLogger"]
    /\ UNCHANGED <<loggers, callbackURL, rts, cb, pipelineVars, streamVars>>

\* loggers[configKey] = logger; http.Redirect(w, r, url, 307)
LoginStoreLogger(i) ==
    /\ lg[i].pc = "storeLogger"
    /\ loggers' = MapPut(loggers, i, Logger(i))
    /\ lg' = [lg EXCEPT ![i].pc = "done", ![i].status = StatusTemporaryRedirect]
    /\ UNCHANGED <<configs, callbackURL, rts, cb, pipelineVars, streamVars>>

\* the end user, sent to the provider's authorize URL, signs in as u and
\* grants request token r
Authorize(r, u) ==
    /\ lg[r].status = StatusTemporaryRedirect
    /\ rts[r].issued
    /\ rts[r].authBy = ""
    /\ rts' = [rts EXCEPT ![r].authBy = u]
    /\ UNCHANGED <<configs, loggers, callbackURL, lg, cb, pipelineVars, streamVars>>

(***************************************************************************)
(* OauthCallback                                                           *)
(***************************************************************************)
\* a request to /oauth_callback with any parameters; util.GetParam("config").
\* (The other form values are drawn where the handler first reads them.)
CallbackStart(j) ==
    /\ cb[j].pc = "idle"
    /\ \E key \in ConfigParams :
        cb' = [cb EXCEPT ![j] =
                [@ EXCEPT !.key = key,
                          !.late = \E k \in Callbacks : Consumed(k) /\ cb[k].key = key,
                          !.after = {k \in Callbacks : CallbackDone(k)},
                          !.pc = IF key = 0 THEN "done" ELSE "lookupLogger",
                          !.status = IF key = 0 THEN StatusBadRequest ELSE 0]]
    /\ UNCHANGED <<configs, loggers, callbackURL, rts, lg, pipelineVars, streamVars>>

\* logger, ok := loggers[configKey]; if !ok || logger == nil { 400; return }
CallbackLookupLogger(j) ==
    /\ cb[j].pc = "lookupLogger"
    /\ cb' = [cb EXCEPT ![j] =
                IF Pending(loggers, cb[j].key)
                THEN [@ EXCEPT !.logger = loggers[cb[j].key], !.pc = "clearLogger"]
                ELSE [@ EXCEPT !.status = StatusBadRequest, !.pc = "done"]]
    /\ UNCHANGED <<configs, loggers, callbackURL, rts, lg, pipelineVars, streamVars>>

\* loggers[configKey] = nil
CallbackClearLogger(j) ==
    /\ cb[j].pc = "clearLogger"
    /\ loggers' = MapPut(loggers, cb[j].key, NilLogger)
    /\ cb' = [cb EXCEPT ![j].pc = "lookupConfig"]
    /\ UNCHANGED <<configs, callbackURL, rts, lg, pipelineVars, streamVars>>

\* userConfig, ok := configs[configKey]; if !ok || userConfig == nil { 400; return }
CallbackLookupConfig(j) ==
    /\ cb[j].pc = "lookupConfig"
    /\ cb' = [cb EXCEPT ![j] =
                IF Pending(configs, cb[j].key)
                THEN [@ EXCEPT !.userConfig = configs[cb[j].key], !.pc = "clearConfig"]
                ELSE [@ EXCEPT !.status = StatusBadRequest, !.pc = "done"]]
    /\ UNCHANGED <<configs, loggers, callbackURL, rts, lg, pipelineVars, streamVars>>

\* the invalidation that resets the whole map
CallbackClearAllConfigs(j) ==
    /\ cb[j].pc = "clearConfig"
    /\ configs' = [k \in DOMAIN configs |-> NilConfig]
    /\ cb' = [cb EXCEPT ![j].pc = "exchange"]
    /\ UNCHANGED <<loggers, callbackURL, rts, lg, pipelineVars, streamVars>>

\* configs[configKey] = nil
CallbackClearConfig(j) ==
    /\ cb[j].pc = "clearConfig"
    /\ configs' = MapPut(configs, cb[j].key, NilConfig)
    /\ cb' = [cb EXCEPT ![j].pc = "exchange"]
    /\ UNCHANGED <<loggers, callbackURL, rts, lg, pipelineVars, streamVars>>

\* util.GetParam("redirect"), then requestAccessToken: the provider trades
\* the config's request token and the request's verifier for an access
\* token of the user who granted that request token
CallbackExchange(j) ==
    /\ cb[j].pc = "exchange"
    /\ \E redirect \in RedirectParams, verifier \in VerifierParams, r \in {"ok", "error"} :
        LET rt == cb[j].userConfig.rt
            granted == rts[rt].authBy # "" /\ verifier = rt
        IN  cb' = [cb EXCEPT ![j] =
                    IF redirect = ""
                    THEN [@ EXCEPT !.status = StatusBadRequest, !.pc = "done"]
                    ELSE IF r = "ok" /\ granted
                    THEN [@ EXCEPT !.redirect = redirect, !.verifier = verifier,
                                   !.exchanges = @ + 1,
                                   !.accessUser = rts[rt].authBy,
                                   !.pc = "finish"]
                    ELSE [@ EXCEPT !.redirect = redirect, !.verifier = verifier,
                                   !.exchanges = @ + 1,
                                   !.status = StatusInternalServerError,
                                   !.pc = "done"]]
    /\ UNCHANGED <<configs, loggers, callbackURL, rts, lg, pipelineVars, streamVars>>

\* requestUserInformation: an error, or the name and id read from the
\* provider's answer (both empty when the answer does not parse); then
\* createTokenString and the redirect to the client with the token
CallbackFinish(j) ==
    /\ cb[j].pc = "finish"
    /\ \E info \in {"ok", "unparsable", "error"}, enc \in {"ok", "error"},
          t \in 0..(MaxTime - tokenValidityDuration) :
        LET userName == IF info = "ok" THEN cb[j].accessUser ELSE ""
            userId == IF info = "ok" THEN UidOf(cb[j].accessUser) ELSE ""
        IN  cb' = [cb EXCEPT ![j] =
                    IF info = "error" \/ enc = "error"
                    THEN [@ EXCEPT !.status = StatusInternalServerError, !.pc = "done"]
                    ELSE [@ EXCEPT !.status = StatusTemporaryRedirect,
                                   !.token = Issue(userName, userId, t + tokenValidityDuration),
                                   !.pc = "done"]]
    /\ UNCHANGED <<configs, loggers, callbackURL, rts, lg, pipelineVars, streamVars>>

(***************************************************************************)
(* authenticatedWebsocket                                                  *)
(***************************************************************************)
\* the placeholder values of the "token" query parameter
NullValue == [fmt |-> "null", user |-> "", uid |-> "", validUntil |-> 0,
              secret |-> NoSecret]
ControlValue == [fmt |-> "u009e", user |-> "", uid |-> "", validUntil |-> 0,
                 secret |-> NoSecret]

\* t == "" || t == "null" || t == "\u009e"
Placeholders == {EmptyValue, NullValue, ControlValue}

\* query.Get("token"): "" when the parameter is absent
QueryTokens == TokenStrings \cup {NullValue, ControlValue}

\* the Authorization header the request arrives with
StreamHeaders == {<<>>} \cup {<<v>> : v \in TokenStrings}

IdleStream ==
    [pc |-> "idle", query |-> EmptyValue, header |-> <<>>, now |-> 0,
     token |-> NoToken, verified |-> EmptyValue, sender |-> FALSE,
     handled |-> FALSE, log |-> <<>>]

InitStream == ws = IdleStream

\* a request arrives at a route wrapped by authenticatedWebsocket
NewStreamRequest ==
    /\ ws.pc = "idle"
    /\ \E q \in QueryTokens, h \in StreamHeaders, t \in 0..MaxTime :
        ws' = [IdleStream EXCEPT !.pc = "param", !.query = q, !.header = h, !.now = t]
    /\ UNCHANGED <<pipelineVars, oauthVars>>

\* r.Header.Add("Authorization", t): the value appended
HeaderAdd(h, v) == Append(h, v)

\* t := query.Get("token"); placeholders are answered 401; otherwise the
\* value is added to the Authorization header
StreamParam ==
    /\ ws.pc = "param"
    /\ ws' = IF ws.query \in Placeholders
             THEN [ws EXCEPT !.log = ResponseUnauthorized(
                                 "could not establish websocket connection: query parameter 'token' not set"),
                             !.pc = "done"]
             ELSE [ws EXCEPT !.header = HeaderAdd(ws.header, ws.query),
                             !.pc = "verify"]
    /\ UNCHANGED <<pipelineVars, oauthVars>>

\* token, err := auth.VerifyRequest(r, logger); if err != nil { 401; return }
StreamVerify ==
    /\ ws.pc = "verify"
    /\ LET r == VerifyRequest(ws.header, ws.now)
       IN  ws' = IF r.err # ""
                 THEN [ws EXCEPT !.log = ResponseUnauthorized("No valid authentication token found"),
                                 !.pc = "done"]
                 ELSE [ws EXCEPT !.token = r.token,
                                 !.verified = HeaderGet(ws.header),
                                 !.pc = "handler"]
    /\ UNCHANGED <<pipelineVars, oauthVars>>

\* sender := websocket.Init(logger); handler(w, r, token, sender)
StreamHandler ==
    /\ ws.pc = "handler"
    /\ ws' = [ws EXCEPT !.sender = TRUE, !.handled = TRUE, !.pc = "done"]
    /\ UNCHANGED <<pipelineVars, oauthVars>>

Init == InitPipeline /\ InitOauth /\ InitStream

Next ==
    \/ NewRequest
    \/ Verify
    \/ CreateContext
    \/ CallHandler
    \/ CheckStatus
    \/ Commit
    \/ WriteBody
    \/ RecoverRespond
    \/ RecoverRollback

Spec == Init /\ [][Next]_vars

NextOauth ==
    \/ \E i \in Logins :
        \/ LoginStart(i)
        \/ LoginSetCallback(i)
        \/ LoginRequestToken(i)
        \/ LoginStoreConfig(i)
        \/ LoginStoreLogger(i)
    \/ \E r \in Logins, u \in Users : Authorize(r, u)
    \/ \E j \in Callbacks :
        \/ CallbackStart(j)
        \/ CallbackLookupLogger(j)
        \/ CallbackClearLogger(j)
        \/ CallbackLookupConfig(j)
        \/ CallbackClearConfig(j)
        \/ CallbackExchange(j)
        \/ CallbackFinish(j)

SpecOauth == Init /\ [][NextOauth]_vars

\* authenticatedWebsocket returns; the server waits for the next request
StreamReturn ==
    /\ ws.pc = "done"
    /\ ws' = IdleStream
    /\ UNCHANGED <<pipelineVars, oauthVars>>

NextStream ==
    \/ NewStreamRequest
    \/ StreamParam
    \/ StreamVerify
    \/ StreamHandler
    \/ StreamReturn

SpecStream == Init /\ [][NextStream]_vars

(***************************************************************************)
(* Properties of prepareAndHandle (specification Spec).                    *)
(***************************************************************************)
Done == pc = "done"
VerifyFailed == pc # "idle" /\ VerifyRequest(header, now).err # ""
TxOpened == CountOp(log, "Begin") = 1
Commits == CountOp(log, "Commit")
Rollbacks == CountOp(log, "Rollback")
CommitSucceeded == CountEv(log, Ev("Commit", 0, "ok")) = 1
CommitFailed == CountEv(log, Ev("Commit", 0, "error")) = 1
DeclaredFailure == response.ptr = "ok" /\ response.statusCode # StatusOK
DeclaredSuccess == response.ptr = "ok" /\ response.statusCode = StatusOK
HandlerPanicked == CountEv(log, Ev("Handler", 0, "panic")) = 1

\* C1: when token verification fails (missing, malformed, tampered or
\* expired token) the request ends with 401, and no transaction is opened,
\* the handler is not invoked and neither Commit nor Rollback is called.
C1_UnauthorizedStops ==
    VerifyFailed =>
        /\ pc \in {"verify", "done"}
        /\ tx = "none"
        /\ CountOp(log, "Begin") = 0
        /\ CountOp(log, "Handler") = 0
        /\ Commits = 0
        /\ Rollbacks = 0
        /\ db = dbStart
        /\ Done => ResponseStatus(log) = StatusUnauthorized

C1_Witness ==
    /\ Done
    /\ VerifyRequest(header, now).err = "expired"
    /\ ResponseStatus(log) = StatusUnauthorized

\* C2 as claimed: for every request whose transaction was opened, exactly
\* one call of Commit or Rollback is made before the pipeline returns.
C2_ExactlyOneCall ==
    (Done /\ TxOpened) => Commits + Rollbacks = 1

\* C2 as amended: for every request whose transaction was opened, Commit
\* and Rollback are each called at most once and exactly one of "Commit
\* succeeded" and "Rollback was called" holds when the pipeline returns;
\* both calls are made exactly when Commit returned an error, and Rollback
\* then follows it.
C2_OneResolution ==
    (Done /\ TxOpened) =>
        /\ Commits <= 1
        /\ Rollbacks <= 1
        /\ CommitSucceeded # (Rollbacks = 1)
        /\ (Commits = 1 /\ Rollbacks = 1) <=> CommitFailed
        /\ CommitFailed =>
            \E i, j \in 1..Len(log) :
                /\ i < j
                /\ log[i].op = "Commit"
                /\ log[j].op = "Rollback"
        /\ tx # "open"

C2_Witness ==
    /\ Done
    /\ TxOpened
    /\ CommitFailed
    /\ Rollbacks = 1

\* C3: when the handler declares failure (a response whose status is not
\* 200) Commit is never called, Rollback is called, and the committed rows
\* are those of before the request: none of the handler's writes is visible.
C3_DeclaredFailureRollsBack ==
    DeclaredFailure =>
        /\ Commits = 0
        /\ db = dbStart
        /\ Done => (Rollbacks = 1 /\ tx \in {"rolledBack", "rollbackFailed"})

C3_Witness ==
    /\ Done
    /\ DeclaredFailure
    /\ txWrites # {}
    /\ ~(txWrites \subseteq db)
    /\ Rollbacks = 1

\* C4 as claimed: handler status 200 and a successful Commit give one
\* Commit, no Rollback and a 200 whose body is the serialized payload when
\* there is a payload and empty when there is none.
C4_BodyIsSerializedPayload ==
    (Done /\ DeclaredSuccess /\ CommitSucceeded) =>
        /\ Commits = 1
        /\ Rollbacks = 0
        /\ ResponseStatus(log) = StatusOK
        /\ IF response.data.kind = "nil"
           THEN ResponseBody(log) = ""
           ELSE /\ Encode(response.data).err = ""
                /\ ResponseBody(log) = Encode(response.data).bytes

\* C4 as amended: handler status 200 and a successful Commit give one
\* Commit, no Rollback, the handler's writes visible, and a 200 (no
\* WriteHeader call) whose body is the JSON encoding of the payload when
\* there is a payload that json can encode, and empty when the payload is
\* nil or cannot be encoded.
C4_SuccessResponse ==
    (Done /\ DeclaredSuccess /\ CommitSucceeded) =>
        /\ Commits = 1
        /\ Rollbacks = 0
        /\ tx = "committed"
        /\ txWrites \subseteq db
        /\ CountOp(log, "WriteHeader") = 0
        /\ ResponseStatus(log) = StatusOK
        /\ ResponseBody(log) =
            (IF response.data.kind = "value"
             THEN "\"" \o response.data.v \o "\"\n"
             ELSE "")

C4_Witness ==
    /\ Done
    /\ DeclaredSuccess
    /\ CommitSucceeded
    /\ response.data.kind = "value"
    /\ ResponseBody(log) # ""

\* C5: when the handler panics the pipeline intercepts it: the response is
\* 500, Commit is not called, Rollback is called and the transaction is
\* not open when the pipeline returns.
C5_PanicRollsBack ==
    HandlerPanicked =>
        /\ TxOpened
        /\ Commits = 0
        /\ db = dbStart
        /\ Done =>
            /\ ResponseStatus(log) = StatusInternalServerError
            /\ Rollbacks = 1
            /\ tx \in {"rolledBack", "rollbackFailed"}

C5_Witness ==
    /\ Done
    /\ HandlerPanicked
    /\ recovered.kind = "string"
    /\ Rollbacks = 1

\* C6: when the handler declares failure the response carries the status
\* the handler declared (400 for BadRequestError, 500 for
\* InternalServerError).
C6_DeclaredStatusAnswered ==
    (Done /\ DeclaredFailure) => ResponseStatus(log) = response.statusCode

\* C7: every request gets exactly one response: at most one WriteHeader and
\* one Write at any time, and when the pipeline returns either one error
\* response (WriteHeader, then the message) or the success response (no
\* WriteHeader, at most the encoded body), never both and never a success
\* body without a successful commit.
C7_OneResponse ==
    /\ CountOp(log, "WriteHeader") <= 1
    /\ CountOp(log, "Write") <= 1
    /\ Done =>
        LET w == SelectSeq(log, IsResponseOp)
        IN  /\ \/ w = <<>>
               \/ Len(w) = 1 /\ w[1].op = "Write"
               \/ Len(w) = 2 /\ w[1].op = "WriteHeader" /\ w[2].op = "Write"
            /\ (CountOp(log, "WriteHeader") = 1) # (DeclaredSuccess /\ CommitSucceeded)
            /\ ResponseStatus(log) \in
                {StatusOK, StatusUnauthorized, StatusInternalServerError}

C7_Witness ==
    /\ Done
    /\ DeclaredSuccess
    /\ CommitFailed
    /\ CountOp(log, "WriteHeader") = 1
    /\ ResponseStatus(log) = StatusInternalServerError

(***************************************************************************)
(* Properties of the handshake (specification SpecOauth).                  *)
(***************************************************************************)
TokenIssued(j) == cb[j].token # EmptyValue

\* C8: a config key is consumed at most once: a callback that arrives after
\* another callback with the same key has found and blanked the pending
\* state fails with 400, makes no provider call and issues no token,
\* whether the first callback succeeded or failed afterwards.
C8_SingleUse ==
    \A j \in Callbacks :
        cb[j].late =>
            /\ cb[j].pc \in {"lookupLogger", "done"}
            /\ cb[j].exchanges = 0
            /\ ~TokenIssued(j)
            /\ cb[j].userConfig.nil
            /\ CallbackDone(j) => cb[j].status = StatusBadRequest

C8_Witness ==
    \E j, k \in Callbacks :
        /\ j # k
        /\ cb[j].key = cb[k].key
        /\ TokenIssued(k)
        /\ cb[j].late
        /\ CallbackDone(j)
        /\ cb[j].status = StatusBadRequest

\* C9: once a callback that consumed the pending state of key k has
\* completed, k is a key of neither configs nor loggers.
C9_ConsumedKeyRemoved ==
    \A j \in Callbacks :
        (CallbackDone(j) /\ Consumed(j)) =>
            /\ cb[j].key \notin DOMAIN configs
            /\ cb[j].key \notin DOMAIN loggers

\* C10: handshakes with distinct keys do not interfere.  A token issued by
\* the callback for key k comes from the pending state login k stored (its
\* logger, its request token, the user who granted that request token), and
\* the pending state of a completed login stays as stored until a callback
\* carrying that very key blanks it.
C10_NoInterference ==
    /\ \A j \in Callbacks :
        TokenIssued(j) =>
            /\ cb[j].logger = Logger(cb[j].key)
            /\ cb[j].userConfig = UserConfig(cb[j].key)
            /\ cb[j].accessUser = rts[cb[j].key].authBy
            /\ cb[j].accessUser \in Users
            /\ cb[j].token.user \in {cb[j].accessUser, ""}
            /\ cb[j].token.uid \in {UidOf(cb[j].accessUser), ""}
    /\ \A k \in Logins :
        lg[k].status = StatusTemporaryRedirect =>
            \/ /\ Pending(configs, k)
               /\ configs[k] = UserConfig(k)
               /\ Pending(loggers, k)
               /\ loggers[k] = Logger(k)
            \/ \E j \in Callbacks : cb[j].key = k /\ Consumed(j)
    /\ \A k \in DOMAIN configs : configs[k].nil \/ configs[k] = UserConfig(k)
    /\ \A k \in DOMAIN loggers : loggers[k].nil \/ loggers[k] = Logger(k)

\* login A (1), then login B (2), then B's callback, then A's callback:
\* two tokens, each for the user who granted its own login
C10_Witness ==
    \E jA, jB \in Callbacks :
        /\ 1 \in lg[2].after
        /\ cb[jA].key = 1
        /\ cb[jB].key = 2
        /\ jB \in cb[jA].after
        /\ TokenIssued(jA)
        /\ TokenIssued(jB)
        /\ cb[jA].token.user = "alice"
        /\ cb[jB].token.user = "bob"
        /\ rts[1].authBy = "alice"
        /\ rts[2].authBy = "bob"

(***************************************************************************)
(* C11  VerifyRequest returns either a token whose Secret is empty or an   *)
(* error and no token, for every Authorization header and every time; so   *)
(* the token the pipeline keeps for the Request Context, and the one the   *)
(* streaming adapter hands to its handler, never carries the secret.       *)
(***************************************************************************)
\* every header either adapter can pass to VerifyRequest
VerifiableHeaders ==
    {<<>>} \cup {<<v>> : v \in TokenStrings}
    \cup {<<v, q>> : v \in {Issue("alice", UidOf("alice"), MaxTime), GarbageValue},
                     q \in {Issue("bob", UidOf("bob"), MaxTime), GarbageValue}}

C11_NoSecretLeavesVerify ==
    /\ \A h \in VerifiableHeaders, t \in 0..MaxTime :
        LET r == VerifyRequest(h, t)
        IN  /\ r.err = "" => r.token # NoToken /\ r.token.secret = NoSecret
            /\ r.err # "" => r.token = NoToken
    /\ token.secret = NoSecret
    /\ pc \in {"idle", "verify"} \/ VerifyFailed => token = NoToken
    /\ pc \notin {"idle", "verify"} /\ ~VerifyFailed =>
        /\ token.user = HeaderGet(header).user
        /\ token.uid = HeaderGet(header).uid

\* a genuine token, whose encoded form carries its signature, was verified
\* and the pipeline went on with it
C11_Witness ==
    /\ pc = "handler"
    /\ HeaderGet(header).secret # NoSecret
    /\ verifyToken(HeaderGet(header), now).token.secret # NoSecret
    /\ token.user = "alice"

(***************************************************************************)
(* C12  On the streaming path a sender is created and the handler invoked  *)
(* only if the "token" query parameter is present, is no placeholder and   *)
(* passes verification; every other request ends with 401, without a       *)
(* sender and without a handler call.                                      *)
(***************************************************************************)
\* the value of the "token" query parameter is a token that verifies
QueryTokenValid ==
    ws.query \notin Placeholders /\ verifyToken(ws.query, ws.now).err = ""

C12_StreamOnlyWithValidQueryToken ==
    /\ ws.sender \/ ws.handled => QueryTokenValid
    /\ ws.pc = "done" /\ ~QueryTokenValid =>
        /\ ResponseStatus(ws.log) = StatusUnauthorized
        /\ ~ws.sender
        /\ ~ws.handled

(***************************************************************************)
(* C13  The pipeline's answer to a rejected token is the same whatever the *)
(* reason of the rejection (no token, undecodable, tampered signature,     *)
(* expired): status 401 and one fixed body, so that any two rejected       *)
(* requests get identical responses.                                       *)
(***************************************************************************)
RejectionReasons == {"malformed", "signature", "expired"}

C13_RejectionIsUniform ==
    Done /\ VerifyFailed =>
        /\ VerifyRequest(header, now).err \in RejectionReasons
        /\ SelectSeq(log, IsResponseOp)
             = ResponseUnauthorized("No valid authentication token found")
        /\ ResponseStatus(log) = StatusUnauthorized
        /\ ResponseBody(log) = "No valid authentication token found"

\* a token that was genuine once and has expired is rejected
C13_Witness ==
    /\ Done
    /\ VerifyRequest(header, now).err = "expired"
    /\ HeaderGet(header).secret
         = Sign(HeaderGet(header).user, HeaderGet(header).uid, HeaderGet(header).validUntil)
    /\ ResponseStatus(log) = StatusUnauthorized

(***************************************************************************)
(* C14  A login whose request-token exchange or authorize-URL construction *)
(* fails is answered with an error status (4xx or 5xx, neither a redirect  *)
(* nor an empty success), and no pending state is stored under its key.    *)
(***************************************************************************)
ProviderFailed(i) == LoginDone(i) /\ lg[i].providerErr # ""

C14_ProviderFailureAnswered ==
    \A i \in Logins :
        ProviderFailed(i) =>
            /\ lg[i].status \in 400..599
            /\ i \notin DOMAIN configs
            /\ i \notin DOMAIN loggers

(***************************************************************************)
(* C15  The body of the 500 answer to an intercepted fault is generic: it  *)
(* is the same for every fault, so that it never carries the text of the   *)
(* value the handler panicked with.                                        *)
(***************************************************************************)
C15_FaultBodyIsGeneric ==
    Done /\ HandlerPanicked =>
        /\ ResponseStatus(log) = StatusInternalServerError
        /\ \A p \in HandlerPanics : ResponseBody(log) # p.v

(***************************************************************************)
(* C16  When the handler succeeded and Commit returns an error, the        *)
(* request is answered 500 and nothing else is ever written for it (no     *)
(* 200, no payload), none of the handler's writes is committed, Rollback   *)
(* is called after the failed Commit, and the response is the same whether *)
(* that Rollback succeeds or fails.                                        *)
(***************************************************************************)
C16_CommitFailureIsFatal ==
    CommitFailed =>
        /\ DeclaredSuccess
        /\ pc \in {"recover", "rollback", "done"}
        /\ db = dbStart
        /\ SelectSeq(log, IsResponseOp) \in {<<>>, ResponseInternalError("commit failed")}
        /\ pc \in {"rollback", "done"} =>
            /\ SelectSeq(log, IsResponseOp) = ResponseInternalError("commit failed")
            /\ ResponseStatus(log) = StatusInternalServerError
        /\ Done =>
            /\ Rollbacks = 1
            /\ log[Len(log)].op = "Rollback"
            /\ log[Len(log)].text \in RollbackResults
            /\ \E i \in 1..Len(log) : log[i] = Ev("Commit", 0, "error")

\* a payload was ready, Commit failed, and so did the Rollback after it
C16_Witness ==
    /\ Done
    /\ CommitFailed
    /\ response.data.kind = "value"
    /\ txWrites # {}
    /\ CountEv(log, Ev("Rollback", 0, "error")) = 1
    /\ ResponseStatus(log) = StatusInternalServerError

(***************************************************************************)
(* C17 as claimed: the transaction is resolved (Commit or Rollback has     *)
(* been called) before the response is written: nothing of the response    *)
(* is written while the transaction is open.                               *)
(***************************************************************************)
C17_ResolvedBeforeWrite ==
    tx = "open" => SelectSeq(log, IsResponseOp) = <<>>

(***************************************************************************)
(* C17 as amended: the transaction is resolved before the pipeline         *)
(* returns.  On the commit paths Commit is called before anything is       *)
(* written; on the rollback paths of a declared failure or a panic the 500 *)
(* is written first, while the transaction is open, and Rollback is the    *)
(* next and last call.                                                     *)
(***************************************************************************)
C17_ResolvedBeforeReturn ==
    TxOpened =>
        /\ Done => tx # "open" /\ Commits + Rollbacks >= 1
        /\ tx = "open" /\ SelectSeq(log, IsResponseOp) # <<>> =>
            /\ pc = "rollback"
            /\ Commits = 0
            /\ SelectSeq(log, IsResponseOp) = ResponseInternalError(recovered.v)
        /\ \A i, j \in 1..Len(log) :
            log[i].op = "Commit" /\ IsResponseOp(log[j]) => i < j
        /\ \A i, j \in 1..Len(log) :
            log[i].op = "Rollback" /\ IsResponseOp(log[j]) => j < i

\* a handler panicked: the 500 was written, then the Rollback succeeded
C17_Witness ==
    /\ Done
    /\ HandlerPanicked
    /\ tx = "rolledBack"
    /\ \E i, j \in 1..Len(log) :
        /\ i < j
        /\ log[i] = Ev("Write", 0, recovered.v)
        /\ log[j] = Ev("Rollback", 0, "ok")

(***************************************************************************)
(* C18  Of the concurrent callbacks that carry the same config key at most *)
(* one passes the pending-state lookup (logger and config found) and goes  *)
(* on to the access-token exchange: no pending state is used twice.        *)
(***************************************************************************)
PassedLookup(j) == ~cb[j].logger.nil /\ ~cb[j].userConfig.nil

C18_AtMostOnePasses ==
    \A j, k \in Callbacks :
        (j # k /\ cb[j].key = cb[k].key) => ~(PassedLookup(j) /\ PassedLookup(k))

(***************************************************************************)
(* C19  The callback URL the provider receives with a login's              *)
(* request-token exchange carries that login's own config key and          *)
(* redirect URL, under every interleaving of concurrent logins.            *)
(***************************************************************************)
C19_OwnCallbackURL ==
    \A i \in Logins :
        rts[i].issued => rts[i].callback = CallbackURL(lg[i].redirect, i)

(***************************************************************************)
(* C20  On the streaming path the value that is verified, and whose        *)
(* identity the handler receives, is the "token" query parameter, also     *)
(* when the request arrives with an Authorization header of its own.       *)
(***************************************************************************)
C20_QueryTokenIsVerified ==
    ws.pc = "handler" \/ ws.handled =>
        /\ ws.verified = ws.query
        /\ ws.token = VerifyRequest(<<ws.query>>, ws.now).token

(***************************************************************************)
(* C21  A callback issues a token and redirects to the client only when    *)
(* it found the pending state, got a redirect parameter, completed the     *)
(* access-token exchange and received the user's identity from the         *)
(* provider: the token names the user who granted access, never an empty   *)
(* user name or uid.                                                       *)
(***************************************************************************)
C21_TokenNamesTheUser ==
    \A j \in Callbacks :
        (TokenIssued(j) \/ cb[j].status = StatusTemporaryRedirect) =>
            /\ TokenIssued(j)
            /\ cb[j].status = StatusTemporaryRedirect
            /\ PassedLookup(j)
            /\ cb[j].redirect # ""
            /\ cb[j].exchanges = 1
            /\ cb[j].accessUser \in Users
            /\ cb[j].token.user = cb[j].accessUser
            /\ cb[j].token.uid = UidOf(cb[j].accessUser)
            /\ cb[j].token.user # ""
            /\ cb[j].token.uid # ""

====
